---- MODULE Spec2Model ----
(***************************************************************************)
(* Model of the pytc VS Code extension (src/src/extension.ts): the         *)
(* PytestConfigViewProvider that decodes the persisted pytestArgs token    *)
(* list into a PytestConfig, renders it as a form, and encodes a submitted *)
(* form back into the token list.                                          *)
(*                                                                         *)
(* A JavaScript string is a sequence of one-character strings, so that     *)
(* startsWith, split, template concatenation, toString and parseInt are    *)
(* computed character by character.  A JavaScript object is the sequence   *)
(* of its <<key, value>> properties in insertion order.  An optional       *)
(* value is <<>> (undefined) or <<v>>.                                     *)
(***************************************************************************)
EXTENDS Integers, Sequences, FiniteSets, TLC

VARIABLES
    workspaceFolder,  \* _workspaceFolder is set (TRUE) or undefined (FALSE)
    cpuCount,         \* os.cpus().length
    pytestArgs,       \* python.testing.pytestArgs as persisted in the workspace settings
    initialArgs,      \* pytestArgs as persisted when the provider was constructed
    view,             \* _view is set (TRUE) or undefined (FALSE)
    form,             \* the values of the controls of the rendered webview form
    posted,           \* the updateConfig messages posted by the webview, not yet received
    messages,         \* the config of every updateConfig message received so far
    pending,          \* updateWorkspaceConfig calls suspended at `await update(...)`
    written,          \* the messages whose `update` has written the settings
    shown,            \* shown[i]: the notifications shown while handling message i
    refreshed,        \* number of 'Pytest configuration refreshed' notifications shown
    phase,            \* position of a direct call of the codec (SpecCodec)
    config,           \* the PytestConfig handed to a direct updateWorkspaceConfig call
    decoded           \* the PytestConfig returned by a direct getCurrentConfig call

vars == <<workspaceFolder, cpuCount, pytestArgs, initialArgs, view, form, posted,
          messages, pending, written, shown, refreshed, phase, config, decoded>>

(***************************************************************************)
(* Bounds of the model.                                                    *)
(***************************************************************************)
MaxCpu == 4
MaxMessages == 2
MaxRefresh == 1
MaxArgs == 3
MaxVariant == 5

(***************************************************************************)
(* JavaScript strings.                                                     *)
(***************************************************************************)
Digits == <<"0", "1", "2", "3", "4", "5", "6", "7", "8", "9">>

RECURSIVE toString(_)
toString(n) ==
    IF n < 10 THEN <<Digits[n + 1]>>
    ELSE toString(n \div 10) \o <<Digits[(n % 10) + 1]>>

IsDigit(ch) == \E d \in 1..10 : Digits[d] = ch

DigitValue(ch) == (CHOOSE d \in 1..10 : Digits[d] = ch) - 1

NaN == -1

RECURSIVE parseDigits(_, _)
parseDigits(s, acc) ==
    IF s = <<>> \/ ~IsDigit(Head(s)) THEN acc
    ELSE parseDigits(Tail(s), acc * 10 + DigitValue(Head(s)))

parseInt(s) ==
    IF s = <<>> \/ ~IsDigit(Head(s)) THEN NaN ELSE parseDigits(s, 0)

startsWith(s, prefix) ==
    /\ Len(s) >= Len(prefix)
    /\ SubSeq(s, 1, Len(prefix)) = prefix

RECURSIVE splitFrom(_, _, _)
splitFrom(s, sep, cur) ==
    IF s = <<>> THEN <<cur>>
    ELSE IF Head(s) = sep THEN <<cur>> \o splitFrom(Tail(s), sep, <<>>)
    ELSE splitFrom(Tail(s), sep, Append(cur, Head(s)))

split(s, sep) == splitFrom(s, sep, <<>>)

(***************************************************************************)
(* JavaScript objects and optional values.                                 *)
(***************************************************************************)
Undefined == <<>>

EmptyObject == <<>>

Has(obj, key) == \E i \in 1..Len(obj) : obj[i][1] = key

Get(obj, key) ==
    IF Has(obj, key)
    THEN <<obj[CHOOSE i \in 1..Len(obj) : obj[i][1] = key][2]>>
    ELSE Undefined

\* mutant of Put: an assignment to a property already set is lost
PutIfAbsent(obj, key, value) ==
    IF Has(obj, key) THEN obj ELSE Append(obj, <<key, value>>)

Put(obj, key, value) ==
    IF Has(obj, key)
    THEN [i \in 1..Len(obj) |-> IF obj[i][1] = key THEN <<key, value>> ELSE obj[i]]
    ELSE Append(obj, <<key, value>>)

\* truthiness of an optional string: neither undefined nor ''
TruthyString(opt) == opt # Undefined /\ opt[1] # <<>>

\* truthiness of an optional boolean: neither undefined nor false
TruthyBoolean(opt) == opt # Undefined /\ opt[1] = TRUE

(***************************************************************************)
(* String literals of the source.                                          *)
(***************************************************************************)
Eq == "="
none == <<"n", "o", "n", "e">>
auto == <<"a", "u", "t", "o">>
one == <<"1">>
long == <<"l", "o", "n", "g">>
short == <<"s", "h", "o", "r", "t">>
native == <<"n", "a", "t", "i", "v", "e">>
no == <<"n", "o">>
quiet == <<"q", "u", "i", "e", "t">>
verbose == <<"v", "e", "r", "b", "o", "s", "e">>
moreVerbose == <<"m", "o", "r", "e", "-">> \o verbose
veryVerbose == <<"v", "e", "r", "y", "-">> \o verbose
chromium == <<"c", "h", "r", "o", "m", "i", "u", "m">>
firefox == <<"f", "i", "r", "e", "f", "o", "x">>
webkit == <<"w", "e", "b", "k", "i", "t">>
on == <<"o", "n">>
off == <<"o", "f", "f">>
retainOnFailure == <<"r", "e", "t", "a", "i", "n", "-", "o", "n", "-",
                     "f", "a", "i", "l", "u", "r", "e">>

TbPrefix == <<"-", "-", "t", "b", "=">>
NumprocessesPrefix == <<"-", "-", "n", "u", "m", "p", "r", "o", "c", "e", "s", "s", "e", "s", "=">>
BrowserPrefix == <<"-", "-", "b", "r", "o", "w", "s", "e", "r", "=">>
TracingPrefix == <<"-", "-", "t", "r", "a", "c", "i", "n", "g", "=">>
VideoPrefix == <<"-", "-", "v", "i", "d", "e", "o", "=">>
FlagQ == <<"-", "q">>
FlagV == <<"-", "v">>
FlagVV == <<"-", "v", "v">>
FlagVVV == <<"-", "v", "v", "v">>
FlagS == <<"-", "s">>
FlagShowlocals == <<"-", "-", "s", "h", "o", "w", "l", "o", "c", "a", "l", "s">>
FlagHeaded == <<"-", "-", "h", "e", "a", "d", "e", "d">>
FlagDelve == <<"-", "-", "d", "e", "l", "v", "e", "=", "1">>
FlagSlowmo == <<"-", "-", "s", "l", "o", "w", "m", "o">>

(***************************************************************************)
(* getProcessOptions: the options of the "Number of processes" select.     *)
(***************************************************************************)
RECURSIVE evenOptions(_, _, _)
evenOptions(options, i, cpus) ==
    IF i <= cpus THEN evenOptions(Append(options, toString(i)), i + 2, cpus)
    ELSE options

getProcessOptions(cpus) ==
    LET options == <<none, auto, one>>
    IN  IF cpus > 2
        THEN LET stepped == evenOptions(options, 2, cpus)
             IN  IF cpus % 2 # 0 /\ cpus > 2
                 THEN LET lastOption == parseInt(stepped[Len(stepped)])
                      IN  IF lastOption # NaN /\ lastOption < cpus
                          THEN Append(stepped, toString(cpus))
                          ELSE stepped
                 ELSE stepped
        ELSE options

(***************************************************************************)
(* getCurrentConfig: decode the persisted token list.                      *)
(***************************************************************************)
\* mutant of isFlag: arg.startsWith(flag) instead of arg === flag
isFlagPrefix(arg, flag) == startsWith(arg, flag)

\* arg === flag
isFlag(arg, flag) == arg = flag

parseArg(cfg, arg) ==
    IF startsWith(arg, TbPrefix) THEN Put(cfg, "tb", split(arg, Eq)[2])
    ELSE IF startsWith(arg, NumprocessesPrefix) THEN Put(cfg, "numprocesses", split(arg, Eq)[2])
    ELSE IF isFlag(arg, FlagQ) THEN Put(cfg, "verbosity", quiet)
    ELSE IF isFlag(arg, FlagV) THEN Put(cfg, "verbosity", verbose)
    ELSE IF isFlag(arg, FlagVV) THEN Put(cfg, "verbosity", moreVerbose)
    ELSE IF isFlag(arg, FlagVVV) THEN Put(cfg, "verbosity", veryVerbose)
    ELSE IF isFlag(arg, FlagS) THEN Put(cfg, "captureOutput", TRUE)
    ELSE IF isFlag(arg, FlagShowlocals) THEN Put(cfg, "showlocals", TRUE)
    ELSE IF isFlag(arg, FlagHeaded) THEN Put(cfg, "headed", TRUE)
    ELSE IF isFlag(arg, FlagDelve) THEN Put(cfg, "delve", TRUE)
    ELSE IF startsWith(arg, BrowserPrefix) THEN Put(cfg, "browser", split(arg, Eq)[2])
    ELSE IF isFlag(arg, FlagSlowmo) THEN Put(cfg, "slowmo", TRUE)
    ELSE IF startsWith(arg, TracingPrefix) THEN Put(cfg, "tracing", split(arg, Eq)[2])
    ELSE IF startsWith(arg, VideoPrefix) THEN Put(cfg, "video", split(arg, Eq)[2])
    ELSE cfg

RECURSIVE parseArgs(_, _)
parseArgs(cfg, args) ==
    IF args = <<>> THEN cfg
    ELSE parseArgs(parseArg(cfg, Head(args)), Tail(args))

getCurrentConfig(folder, stored) ==
    IF ~folder THEN EmptyObject
    ELSE parseArgs(EmptyObject, stored)

(***************************************************************************)
(* updateWorkspaceConfig: encode a PytestConfig as the new token list.     *)
(***************************************************************************)
\* mutant of valueArg: the `!== 'none'` test is missing
valueArgNoSentinel(cfg, key, prefix) ==
    LET v == Get(cfg, key)
    IN  IF TruthyString(v) THEN <<prefix \o v[1]>> ELSE <<>>

valueArg(cfg, key, prefix) ==
    LET v == Get(cfg, key)
    IN  IF TruthyString(v) /\ v[1] # none THEN <<prefix \o v[1]>> ELSE <<>>

\* mutant of verbosityArg: the `break` statements of the switch are missing
verbosityArgFallthrough(cfg) ==
    LET v == Get(cfg, "verbosity")
    IN  IF TruthyString(v)
        THEN IF v[1] = quiet THEN <<FlagQ, FlagV, FlagVV, FlagVVV>>
             ELSE IF v[1] = verbose THEN <<FlagV, FlagVV, FlagVVV>>
             ELSE IF v[1] = moreVerbose THEN <<FlagVV, FlagVVV>>
             ELSE IF v[1] = veryVerbose THEN <<FlagVVV>>
             ELSE <<>>
        ELSE <<>>

verbosityArg(cfg) ==
    LET v == Get(cfg, "verbosity")
    IN  IF TruthyString(v)
        THEN IF v[1] = quiet THEN <<FlagQ>>
             ELSE IF v[1] = verbose THEN <<FlagV>>
             ELSE IF v[1] = moreVerbose THEN <<FlagVV>>
             ELSE IF v[1] = veryVerbose THEN <<FlagVVV>>
             ELSE <<>>
        ELSE <<>>

switchArg(cfg, key, flag) ==
    IF TruthyBoolean(Get(cfg, key)) THEN <<flag>> ELSE <<>>

\* mutant of newArgs: the Playwright options are pushed before the pytest switches
newArgsBrowserFirst(cfg) ==
    valueArg(cfg, "tb", TbPrefix)
    \o valueArg(cfg, "numprocesses", NumprocessesPrefix)
    \o verbosityArg(cfg)
    \o valueArg(cfg, "browser", BrowserPrefix)
    \o switchArg(cfg, "captureOutput", FlagS)
    \o switchArg(cfg, "showlocals", FlagShowlocals)
    \o switchArg(cfg, "headed", FlagHeaded)
    \o switchArg(cfg, "delve", FlagDelve)
    \o switchArg(cfg, "slowmo", FlagSlowmo)
    \o valueArg(cfg, "tracing", TracingPrefix)
    \o valueArg(cfg, "video", VideoPrefix)

newArgs(cfg) ==
    valueArg(cfg, "tb", TbPrefix)
    \o valueArg(cfg, "numprocesses", NumprocessesPrefix)
    \o verbosityArg(cfg)
    \o switchArg(cfg, "captureOutput", FlagS)
    \o switchArg(cfg, "showlocals", FlagShowlocals)
    \o switchArg(cfg, "headed", FlagHeaded)
    \o switchArg(cfg, "delve", FlagDelve)
    \o valueArg(cfg, "browser", BrowserPrefix)
    \o switchArg(cfg, "slowmo", FlagSlowmo)
    \o valueArg(cfg, "tracing", TracingPrefix)
    \o valueArg(cfg, "video", VideoPrefix)

(***************************************************************************)
(* _getHtmlForWebview: the controls of the form rendered from the current  *)
(* configuration.  A <select> shows its last option carrying `selected`,   *)
(* or its first option when none carries it.                                *)
(***************************************************************************)
option(value, selected) == [value |-> value, selected |-> selected]

selectValue(options) ==
    LET marked == {i \in 1..Len(options) : options[i].selected}
    IN  IF marked = {} THEN options[1].value
        ELSE options[CHOOSE i \in marked : \A j \in marked : j <= i].value

\* <option value="none" ${cfg.key === undefined}> then one option per value
enumOptions(cfg, key, values) ==
    <<option(none, Get(cfg, key) = Undefined)>>
    \o [i \in 1..Len(values) |-> option(values[i], Get(cfg, key) = <<values[i]>>)]

processOptions(cfg, cpus) ==
    LET options == getProcessOptions(cpus)
    IN  [i \in 1..Len(options) |->
            option(options[i],
                   \/ (options[i] = none /\ Get(cfg, "numprocesses") = Undefined)
                   \/ Get(cfg, "numprocesses") = <<options[i]>>)]

TbValues == <<auto, long, short, native, no>>
VerbosityValues == <<quiet, verbose, moreVerbose, veryVerbose>>
BrowserValues == <<chromium, firefox, webkit>>
TracingValues == <<on, off, retainOnFailure>>
VideoValues == <<on, off, retainOnFailure>>

verbosityOptions(cfg) ==
    <<option(<<>>, ~TruthyString(Get(cfg, "verbosity")))>>
    \o [i \in 1..Len(VerbosityValues) |->
            option(VerbosityValues[i], Get(cfg, "verbosity") = <<VerbosityValues[i]>>)]

getHtmlForWebview(cfg, cpus) ==
    [tb            |-> selectValue(enumOptions(cfg, "tb", TbValues)),
     numprocesses  |-> selectValue(processOptions(cfg, cpus)),
     verbosity     |-> selectValue(verbosityOptions(cfg)),
     captureOutput |-> TruthyBoolean(Get(cfg, "captureOutput")),
     showlocals    |-> TruthyBoolean(Get(cfg, "showlocals")),
     browser       |-> selectValue(enumOptions(cfg, "browser", BrowserValues)),
     headed        |-> TruthyBoolean(Get(cfg, "headed")),
     slowmo        |-> TruthyBoolean(Get(cfg, "slowmo")),
     tracing       |-> selectValue(enumOptions(cfg, "tracing", TracingValues)),
     video         |-> selectValue(enumOptions(cfg, "video", VideoValues)),
     delve         |-> TruthyBoolean(Get(cfg, "delve"))]

\* the config object the webview script builds from the controls
updateConfigMessage(f) ==
    << <<"tb", f.tb>>, <<"numprocesses", f.numprocesses>>, <<"verbosity", f.verbosity>>,
       <<"captureOutput", f.captureOutput>>, <<"showlocals", f.showlocals>>,
       <<"headed", f.headed>>, <<"delve", f.delve>>, <<"browser", f.browser>>,
       <<"slowmo", f.slowmo>>, <<"tracing", f.tracing>>, <<"video", f.video>> >>

(***************************************************************************)
(* Inputs.                                                                 *)
(***************************************************************************)
Foo == <<"-", "-", "f", "o", "o", "=", "b", "a", "r">>
Tests == <<"t", "e", "s", "t", "s">>
FlagK == <<"-", "k">>

\* token lists found in the workspace settings when the extension starts
StoredLists ==
    { <<>>,
      <<NumprocessesPrefix \o toString(3)>>,
      <<Tests, TbPrefix \o short, FlagQ>>,
      <<NumprocessesPrefix \o auto, BrowserPrefix \o chromium, FlagHeaded>>,
      <<FlagK, FlagS, VideoPrefix \o on, Foo>> }

toggle(f, control) == [f EXCEPT ![control] = ~f[control]]

\* the changes the user makes to a control of the form
UserEdits(f) ==
    { toggle(f, "captureOutput"),
      [f EXCEPT !.tb = long],
      [f EXCEPT !.numprocesses = auto],
      [f EXCEPT !.verbosity = <<>>] } \ {f}

(***************************************************************************)
(* The extension: the view, the form and the workspace settings.           *)
(***************************************************************************)
NoWorkspaceMessage == "No workspace folder found"
SuccessMessage == "Pytest configuration updated successfully"
\* `Failed to update pytest configuration: ${error}`
FailureMessage(error) == "Failed to update pytest configuration: " \o error

\* the errors `workspaceConfig.update` rejects with, as text
UpdateErrors == {"Error: boom"}

Init ==
    /\ workspaceFolder \in BOOLEAN
    /\ cpuCount \in 1..MaxCpu
    /\ pytestArgs \in StoredLists
    /\ initialArgs = pytestArgs
    /\ written = {}
    /\ view = FALSE
    /\ form = Undefined
    /\ posted = <<>>
    /\ messages = <<>>
    /\ pending = {}
    /\ shown = <<>>
    /\ refreshed = 0
    /\ phase = "idle"
    /\ config = EmptyObject
    /\ decoded = EmptyObject

render == <<getHtmlForWebview(getCurrentConfig(workspaceFolder, pytestArgs), cpuCount)>>

resolveWebviewView ==
    /\ ~view
    /\ view' = TRUE
    /\ form' = render
    /\ UNCHANGED <<posted, workspaceFolder, cpuCount, pytestArgs, initialArgs, messages, pending,
                   written, shown, refreshed, phase, config, decoded>>

onDidChangeVisibility ==
    /\ view
    /\ form' = render
    /\ UNCHANGED <<posted, workspaceFolder, cpuCount, pytestArgs, initialArgs, view, messages,
                   pending, written, shown, refreshed, phase, config, decoded>>

\* the pytest-config.refreshConfig command, which activate registers only when a
\* workspace folder is open: provider.refresh(), then its notification
refreshConfig ==
    /\ workspaceFolder
    /\ refreshed < MaxRefresh
    /\ form' = IF view THEN render ELSE form
    /\ refreshed' = refreshed + 1
    /\ UNCHANGED <<posted, workspaceFolder, cpuCount, pytestArgs, initialArgs, view, messages,
                   pending, written, shown, phase, config, decoded>>

\* onchange="updateConfig()" in the webview: read the controls, post the message
updateConfig ==
    /\ view
    /\ Len(messages) + Len(posted) < MaxMessages
    /\ \E f \in UserEdits(form[1]) :
          /\ form' = <<f>>
          /\ posted' = Append(posted, updateConfigMessage(f))
    /\ UNCHANGED <<workspaceFolder, cpuCount, pytestArgs, initialArgs, view, messages,
                   pending, written, shown, refreshed, phase, config, decoded>>

\* the extension host receives the message: updateWorkspaceConfig up to its await
onDidReceiveMessage ==
    /\ posted # <<>>
    /\ LET cfg == Head(posted)
           id == Len(messages) + 1
       IN  /\ posted' = Tail(posted)
           /\ messages' = Append(messages, cfg)
           /\ IF ~workspaceFolder
              THEN /\ shown' = Append(shown, <<NoWorkspaceMessage>>)
                   /\ pending' = pending
              ELSE /\ shown' = Append(shown, <<>>)
                   /\ pending' = pending \cup {[msg |-> id, args |-> newArgs(cfg)]}
    /\ UNCHANGED <<workspaceFolder, cpuCount, pytestArgs, initialArgs, view, form, written,
                   refreshed, phase, config, decoded>>

\* mutant of updateResolved: the new arguments are added to the persisted ones
updateResolvedMerging ==
    \E p \in pending :
        /\ pending' = pending \ {p}
        /\ pytestArgs' = pytestArgs \o p.args
        /\ written' = written \cup {p.msg}
        /\ shown' = [shown EXCEPT ![p.msg] = Append(@, SuccessMessage)]
        /\ UNCHANGED <<posted, workspaceFolder, cpuCount, initialArgs, view, form, messages,
                       refreshed, phase, config, decoded>>

\* `await workspaceConfig.update(...)` resolves
updateResolved ==
    \E p \in pending :
        /\ pending' = pending \ {p}
        /\ pytestArgs' = p.args
        /\ written' = written \cup {p.msg}
        /\ shown' = [shown EXCEPT ![p.msg] =
                        Append(@, SuccessMessage)]
        /\ UNCHANGED <<posted, workspaceFolder, cpuCount, initialArgs, view, form, messages,
                       refreshed, phase, config, decoded>>

\* mutant of updateRejected: the success message is shown after the catch block
updateRejectedThenSuccess ==
    \E p \in pending, error \in UpdateErrors :
        /\ pending' = pending \ {p}
        /\ shown' = [shown EXCEPT ![p.msg] =
                        Append(Append(@, FailureMessage(error)), SuccessMessage)]
        /\ UNCHANGED <<posted, workspaceFolder, cpuCount, pytestArgs, initialArgs, view, form,
                       messages, written, refreshed, phase, config, decoded>>

\* `await workspaceConfig.update(...)` rejects
updateRejected ==
    \E p \in pending, error \in UpdateErrors :
        /\ pending' = pending \ {p}
        /\ shown' = [shown EXCEPT ![p.msg] =
                        Append(@, FailureMessage(error))]
        /\ UNCHANGED <<posted, workspaceFolder, cpuCount, pytestArgs, initialArgs, view, form,
                       messages, written, refreshed, phase, config, decoded>>

Next ==
    \/ resolveWebviewView
    \/ onDidChangeVisibility
    \/ refreshConfig
    \/ updateConfig
    \/ onDidReceiveMessage
    \/ updateResolved
    \/ updateRejected

Spec == Init /\ [][Next]_vars

(***************************************************************************)
(* Direct calls of the codec: getCurrentConfig on any stored token list,   *)
(* updateWorkspaceConfig on any PytestConfig.                              *)
(***************************************************************************)
Fields == <<"tb", "numprocesses", "verbosity", "captureOutput", "showlocals", "headed",
            "delve", "browser", "slowmo", "tracing", "video">>

BooleanFields == {"captureOutput", "showlocals", "headed", "delve", "slowmo"}

FieldIndex(key) == CHOOSE i \in 1..Len(Fields) : Fields[i] = key

\* values of the documented domain of a field
Domain(key) ==
    CASE key = "tb" -> TbValues
      [] key = "numprocesses" -> <<auto, toString(0), toString(1), toString(12), toString(3)>>
      [] key = "verbosity" -> VerbosityValues
      [] key = "browser" -> BrowserValues
      [] key = "tracing" -> TracingValues
      [] key = "video" -> VideoValues
      [] OTHER -> <<TRUE, FALSE>>

Reverse(s) == [i \in 1..Len(s) |-> s[Len(s) + 1 - i]]

\* the config holding the fields of `present`, set in the order of Fields or in the
\* opposite order, each with the value of its domain that `variant` selects
ConfigOf(present, variant, reversed) ==
    LET IsPresent(key) == key \in present
        keys == SelectSeq(Fields, IsPresent)
        obj == [i \in 1..Len(keys) |->
                   LET dom == Domain(keys[i])
                   IN  <<keys[i], dom[((variant + FieldIndex(keys[i])) % Len(dom)) + 1]>>]
    IN  IF reversed THEN Reverse(obj) ELSE obj

FieldSet == {Fields[i] : i \in 1..Len(Fields)}

\* the value a control submits for "not set"
Sentinel(key) ==
    IF key \in BooleanFields THEN FALSE
    ELSE IF key = "verbosity" THEN <<>>
    ELSE none

\* a config as the form submits it: every field present, those outside `present`
\* with the value of a control left at its default
FormConfigOf(present, variant) ==
    [i \in 1..Len(Fields) |->
        LET dom == Domain(Fields[i])
        IN  <<Fields[i],
              IF Fields[i] \in present
              THEN dom[((variant + i) % Len(dom)) + 1]
              ELSE Sentinel(Fields[i])>>]

Scenario1 == << <<"tb", short>>, <<"verbosity", verbose>>, <<"captureOutput", TRUE>> >>

Configs ==
    { ConfigOf(present, variant, reversed) :
        present \in SUBSET FieldSet, variant \in 1..MaxVariant, reversed \in BOOLEAN }
    \cup { FormConfigOf(present, variant) :
        present \in SUBSET FieldSet, variant \in 1..MaxVariant }
    \cup { Scenario1 }

ArgPool ==
    { TbPrefix \o short, TbPrefix, TbPrefix \o <<"a", "=", "b">>,
      NumprocessesPrefix \o auto, NumprocessesPrefix \o toString(3),
      FlagQ, FlagV, FlagVV, FlagVVV, FlagS, FlagShowlocals, FlagHeaded, FlagDelve,
      BrowserPrefix \o chromium, FlagSlowmo, TracingPrefix \o on,
      VideoPrefix \o retainOnFailure, VideoPrefix \o off,
      Foo, FlagVVV \o <<"v">>, <<"-", "-", "t", "b">>, Tests }

ArgLists == UNION { [1..n -> ArgPool] : n \in 0..MaxArgs }

InitCodec ==
    /\ workspaceFolder = TRUE
    /\ cpuCount = 1
    /\ written = {}
    /\ view = FALSE
    /\ form = Undefined
    /\ posted = <<>>
    /\ messages = <<>>
    /\ pending = {}
    /\ shown = <<>>
    /\ refreshed = 0
    /\ decoded = EmptyObject
    /\ \/ /\ phase = "args"
          /\ pytestArgs \in ArgLists
          /\ config = EmptyObject
       \/ /\ phase = "config"
          /\ pytestArgs = <<>>
          /\ config \in Configs
    /\ initialArgs = pytestArgs

callGetCurrentConfig ==
    /\ \/ phase = "args"
       \/ phase = "config" /\ messages # <<>> /\ pending = {}
    /\ decoded' = getCurrentConfig(workspaceFolder, pytestArgs)
    /\ phase' = "decoded"
    /\ UNCHANGED <<posted, workspaceFolder, cpuCount, pytestArgs, initialArgs, view, form,
                   messages, pending, written, shown, refreshed, config>>

\* updateWorkspaceConfig(config) up to its await
callUpdateWorkspaceConfig ==
    /\ phase = "config"
    /\ messages = <<>>
    /\ messages' = <<config>>
    /\ shown' = <<<<>>>>
    /\ pending' = {[msg |-> 1, args |-> newArgs(config)]}
    /\ UNCHANGED <<posted, workspaceFolder, cpuCount, pytestArgs, initialArgs, view, form, written,
                   refreshed, phase, config, decoded>>

NextCodec ==
    \/ callGetCurrentConfig
    \/ callUpdateWorkspaceConfig
    \/ updateResolved
    \/ updateRejected

SpecCodec == InitCodec /\ [][NextCodec]_vars

(***************************************************************************)
(* Vocabulary of the claims.                                               *)
(***************************************************************************)
ValuePrefixes ==
    { <<"tb", TbPrefix>>, <<"numprocesses", NumprocessesPrefix>>,
      <<"browser", BrowserPrefix>>, <<"tracing", TracingPrefix>>, <<"video", VideoPrefix>> }

VerbosityFlags == {FlagQ, FlagV, FlagVV, FlagVVV}

\* the field a token of the recognized vocabulary belongs to, "" for any other token
TokenField(tok) ==
    CASE startsWith(tok, TbPrefix) -> "tb"
      [] startsWith(tok, NumprocessesPrefix) -> "numprocesses"
      [] tok \in VerbosityFlags -> "verbosity"
      [] tok = FlagS -> "captureOutput"
      [] tok = FlagShowlocals -> "showlocals"
      [] tok = FlagHeaded -> "headed"
      [] tok = FlagDelve -> "delve"
      [] startsWith(tok, BrowserPrefix) -> "browser"
      [] tok = FlagSlowmo -> "slowmo"
      [] startsWith(tok, TracingPrefix) -> "tracing"
      [] startsWith(tok, VideoPrefix) -> "video"
      [] OTHER -> ""

Recognized(tok) == TokenField(tok) # ""

\* position of a token in the canonical sequence, 0 for a token outside it
Slot(tok) ==
    IF Recognized(tok) THEN FieldIndex(TokenField(tok)) ELSE 0

VerbosityOf(flag) ==
    CASE flag = FlagQ -> quiet
      [] flag = FlagV -> verbose
      [] flag = FlagVV -> moreVerbose
      [] flag = FlagVVV -> veryVerbose

IsNaturalText(v) == v # <<>> /\ \A i \in 1..Len(v) : IsDigit(v[i])

InSeq(v, values) == \E i \in 1..Len(values) : values[i] = v

\* every field of cfg is a boolean or a value of its documented domain
Documented(cfg) ==
    \A i \in 1..Len(cfg) :
        LET key == cfg[i][1]
            v == cfg[i][2]
        IN  \/ key \in BooleanFields
            \/ key = "tb" /\ InSeq(v, TbValues)
            \/ key = "numprocesses" /\ (v = auto \/ IsNaturalText(v))
            \/ key = "verbosity" /\ InSeq(v, VerbosityValues)
            \/ key = "browser" /\ InSeq(v, BrowserValues)
            \/ key = "tracing" /\ InSeq(v, TracingValues)
            \/ key = "video" /\ InSeq(v, VideoValues)

\* two configs agree on a field, a boolean that is false counting as absent
SameField(a, b, key) ==
    IF key \in BooleanFields
    THEN TruthyBoolean(Get(a, key)) = TruthyBoolean(Get(b, key))
    ELSE Get(a, key) = Get(b, key)

\* a direct updateWorkspaceConfig(config) call has written the settings
Encoded == messages = <<config>> /\ 1 \in written

\* a direct getCurrentConfig call has decoded a given token list
DecodedArgs == phase = "decoded" /\ messages = <<>>

IsLast(i, Matches(_)) ==
    /\ Matches(pytestArgs[i])
    /\ \A j \in (i + 1)..Len(pytestArgs) : ~Matches(pytestArgs[j])

(***************************************************************************)
(* C1: decoding the token list that updateWorkspaceConfig wrote for a      *)
(* config of the documented domain gives back that config field by field;  *)
(* a false boolean and an absent field come back absent.                   *)
(***************************************************************************)
C1_RoundTrip ==
    (phase = "decoded" /\ Encoded /\ Documented(config)) =>
        \A key \in FieldSet :
            /\ SameField(decoded, config, key)
            /\ (\/ ~Has(config, key)
                \/ key \in BooleanFields /\ Get(config, key) = <<FALSE>>)
                  => ~Has(decoded, key)

C1_Witness ==
    /\ phase = "decoded" /\ Encoded /\ Documented(config)
    /\ Len(config) = Len(Fields)
    /\ Get(config, "numprocesses") = <<toString(12)>>
    /\ Get(config, "captureOutput") = <<FALSE>>
    /\ Get(decoded, "showlocals") = <<TRUE>>
    /\ Len(decoded) >= 6

(***************************************************************************)
(* C2: the token list written for a config holds at most one token per     *)
(* field, in the canonical order --tb, --numprocesses, verbosity, -s,      *)
(* --showlocals, --headed, --delve=1, --browser, --slowmo, --tracing,      *)
(* --video, whatever the order in which the fields of the config were set. *)
(***************************************************************************)
C2_CanonicalOrder ==
    Encoded =>
        /\ \A i \in 1..Len(pytestArgs) : Slot(pytestArgs[i]) # 0
        /\ \A i, j \in 1..Len(pytestArgs) :
              i < j => Slot(pytestArgs[i]) < Slot(pytestArgs[j])
        /\ pytestArgs = newArgs(Reverse(config))
        /\ config = Scenario1 => pytestArgs = <<TbPrefix \o short, FlagV, FlagS>>

C2_Witness ==
    /\ Encoded
    /\ Len(config) = Len(Fields)
    /\ config[1][1] = "video"
    /\ Len(pytestArgs) >= 9

(***************************************************************************)
(* C3: the token list written for a config holds a token of a field only   *)
(* if the field is present and not 'none' (a string field) or true (a      *)
(* boolean field); the empty config and the form's all-default submission  *)
(* are written as the empty list.                                          *)
(***************************************************************************)
DefaultSubmission ==
    << <<"tb", none>>, <<"numprocesses", none>>, <<"verbosity", <<>> >>,
       <<"captureOutput", FALSE>>, <<"showlocals", FALSE>>, <<"headed", FALSE>>,
       <<"delve", FALSE>>, <<"browser", none>>, <<"slowmo", FALSE>>,
       <<"tracing", none>>, <<"video", none>> >>

Emits(cfg, key) ==
    IF key \in BooleanFields THEN Get(cfg, key) = <<TRUE>>
    ELSE Has(cfg, key) /\ Get(cfg, key) # <<none>>

C3_NoDefaultTokens ==
    Encoded =>
        /\ \A i \in 1..Len(pytestArgs) :
              Recognized(pytestArgs[i]) /\ Emits(config, TokenField(pytestArgs[i]))
        /\ config = EmptyObject => pytestArgs = <<>>
        /\ config = DefaultSubmission => pytestArgs = <<>>

C3_Witness ==
    /\ Encoded
    /\ Len(config) = Len(Fields)
    /\ Get(config, "tb") = <<none>>
    /\ Get(config, "verbosity") = << <<>> >>
    /\ Get(config, "captureOutput") = <<FALSE>>
    /\ Get(config, "browser") # <<none>>
    /\ pytestArgs # <<>>

(***************************************************************************)
(* C4: for the last token that starts with --tb=, --numprocesses=,         *)
(* --browser=, --tracing= or --video=, the decoded field is the whole      *)
(* remainder of the token after the prefix.                                *)
(***************************************************************************)
C4_WholeSuffix ==
    DecodedArgs =>
        \A kp \in ValuePrefixes :
            \A i \in 1..Len(pytestArgs) :
                LET HasPrefix(tok) == startsWith(tok, kp[2])
                    tok == pytestArgs[i]
                IN  IsLast(i, HasPrefix) =>
                        Get(decoded, kp[1]) = <<SubSeq(tok, Len(kp[2]) + 1, Len(tok))>>

(***************************************************************************)
(* C5: decoding any token list gives what decoding the list without its    *)
(* unrecognized tokens gives; a field no token matches stays absent, and   *)
(* the empty list decodes to the empty config.                             *)
(***************************************************************************)
C5_UnknownTokensIgnored ==
    DecodedArgs =>
        /\ decoded = parseArgs(EmptyObject, SelectSeq(pytestArgs, Recognized))
        /\ \A key \in FieldSet :
              Has(decoded, key) =>
                  \E i \in 1..Len(pytestArgs) : TokenField(pytestArgs[i]) = key
        /\ pytestArgs = <<>> => decoded = EmptyObject
        /\ pytestArgs = <<Foo, FlagQ>> => decoded = << <<"verbosity", quiet>> >>
        /\ pytestArgs = <<NumprocessesPrefix \o auto, BrowserPrefix \o chromium, FlagHeaded>>
              => decoded = << <<"numprocesses", auto>>, <<"browser", chromium>>,
                              <<"headed", TRUE>> >>

C5_Witness ==
    /\ DecodedArgs
    /\ Len(pytestArgs) = 3
    /\ ~Recognized(pytestArgs[1])
    /\ ~Recognized(pytestArgs[3])
    /\ pytestArgs[2] = FlagQ
    /\ decoded = << <<"verbosity", quiet>> >>

(***************************************************************************)
(* C6: when several verbosity flags occur, the decoded verbosity is that   *)
(* of the last one; when several tokens with the same value prefix occur,  *)
(* the field holds the value of the last one.                              *)
(***************************************************************************)
C6_LastMatchWins ==
    DecodedArgs =>
        /\ \A i \in 1..Len(pytestArgs) :
              LET IsVerbosity(tok) == tok \in VerbosityFlags
              IN  IsLast(i, IsVerbosity) =>
                      Get(decoded, "verbosity") = <<VerbosityOf(pytestArgs[i])>>
        /\ \A kp \in ValuePrefixes :
              \A i \in 1..Len(pytestArgs) :
                  LET HasPrefix(tok) == startsWith(tok, kp[2])
                  IN  IsLast(i, HasPrefix) =>
                          Get(decoded, kp[1])
                              = Get(parseArgs(EmptyObject, <<pytestArgs[i]>>), kp[1])
        /\ pytestArgs = <<FlagQ, FlagVV>> => Get(decoded, "verbosity") = <<moreVerbose>>

C6_Witness ==
    /\ DecodedArgs
    /\ Len(pytestArgs) = 3
    /\ pytestArgs[1] = FlagVVV
    /\ pytestArgs[2] = VideoPrefix \o off
    /\ pytestArgs[3] = FlagQ
    /\ Get(decoded, "verbosity") = <<quiet>>

(***************************************************************************)
(* C7: for every CPU count n >= 1 the process options are none, auto, 1,   *)
(* then 2, 4, 6, ... up to n, with n itself always among them; the numbers *)
(* increase strictly and none exceeds n.                                   *)
(***************************************************************************)
ExpectedProcessOptions(n) ==
    <<none, auto, toString(1)>>
    \o [i \in 1..(n \div 2) |-> toString(2 * i)]
    \o (IF n % 2 = 1 /\ n > 1 THEN <<toString(n)>> ELSE <<>>)

C7_ProcessOptions ==
    LET options == getProcessOptions(cpuCount)
    IN  /\ options = ExpectedProcessOptions(cpuCount)
        /\ \E i \in 1..Len(options) : options[i] = toString(cpuCount)
        /\ \A i \in 3..Len(options) : parseInt(options[i]) <= cpuCount
        /\ \A i, j \in 3..Len(options) :
              i < j => parseInt(options[i]) < parseInt(options[j])

(***************************************************************************)
(* C8: once an update has succeeded, the persisted list is the encoding of *)
(* a submitted config and of nothing else: it holds only tokens of the     *)
(* recognized vocabulary, and no unrecognized token persisted before.      *)
(***************************************************************************)
C8_StoreReplaced ==
    written # {} =>
        /\ \E i \in written : pytestArgs = newArgs(messages[i])
        /\ \A i \in 1..Len(pytestArgs) : Recognized(pytestArgs[i])
        /\ \A j \in 1..Len(initialArgs) :
              ~Recognized(initialArgs[j]) =>
                  \A i \in 1..Len(pytestArgs) : pytestArgs[i] # initialArgs[j]

C8_Witness ==
    /\ written # {}
    /\ \E j \in 1..Len(initialArgs) : initialArgs[j] = Foo
    /\ \E j \in 1..Len(initialArgs) : initialArgs[j] = FlagK
    /\ \E i \in 1..Len(pytestArgs) : pytestArgs[i] = VideoPrefix \o on

(***************************************************************************)
(* C9: when the form is rendered from a persisted list whose values are of *)
(* the documented domains and is submitted with one control changed, every *)
(* other field of the list written keeps the value it had.                 *)
(***************************************************************************)
ControlOptions(control, cpus) ==
    CASE control = "tb" -> <<none>> \o TbValues
      [] control = "numprocesses" -> getProcessOptions(cpus)
      [] control = "verbosity" -> << <<>> >> \o VerbosityValues
      [] control = "browser" -> <<none>> \o BrowserValues
      [] control = "tracing" -> <<none>> \o TracingValues
      [] control = "video" -> <<none>> \o VideoValues
      [] OTHER -> <<FALSE, TRUE>>

C9_EditPreservesOthers ==
    LET before == getCurrentConfig(workspaceFolder, pytestArgs)
    IN  (view /\ workspaceFolder /\ form = render /\ Documented(before)) =>
            \A control \in FieldSet :
                LET options == ControlOptions(control, cpuCount)
                IN  \A o \in 1..Len(options) :
                        options[o] # form[1][control] =>
                            LET edited == [form[1] EXCEPT ![control] = options[o]]
                                after == parseArgs(EmptyObject,
                                                   newArgs(updateConfigMessage(edited)))
                            IN  \A key \in FieldSet \ {control} :
                                    SameField(after, before, key)

(***************************************************************************)
(* C10: every updateConfig message handled ends with exactly one           *)
(* notification: without a workspace folder the error, no write and an     *)
(* empty current config; after a failed write only the failure message;    *)
(* the success message only once the write has completed.                  *)
(***************************************************************************)
IsPending(i) == \E p \in pending : p.msg = i

C10_OneNotification ==
    /\ Len(shown) = Len(messages)
    /\ \A i \in 1..Len(messages) :
          /\ IF IsPending(i) THEN shown[i] = <<>> ELSE Len(shown[i]) = 1
          /\ shown[i] = <<SuccessMessage>> <=> i \in written
          /\ (workspaceFolder /\ ~IsPending(i) /\ i \notin written)
                => \E error \in UpdateErrors : shown[i] = <<FailureMessage(error)>>
          /\ ~workspaceFolder => shown[i] = <<NoWorkspaceMessage>>
    /\ ~workspaceFolder =>
          /\ pending = {}
          /\ written = {}
          /\ getCurrentConfig(workspaceFolder, pytestArgs) = EmptyObject
    /\ written = {} => pytestArgs = initialArgs

C10_Witness ==
    /\ Len(messages) = 2
    /\ pending = {}
    /\ shown[1] = <<FailureMessage("Error: boom")>>
    /\ shown[2] = <<SuccessMessage>>
    /\ pytestArgs = newArgs(messages[2])
    /\ pytestArgs # initialArgs

====
